---------------------------- MODULE Spec2Model ----------------------------
(***************************************************************************)
(* Model of app.py: the batch loop of __main__, guardar_en_txt, the line   *)
(* loop of convertir_a_json and validar_datos.  Texts are TLA+ strings;    *)
(* the Python string operations (strip, split, in, +, len) are computed    *)
(* character by character with Len, SubSeq and \o.  Python dicts are       *)
(* sequences of [k, v] records in insertion order with unique keys.        *)
(***************************************************************************)
EXTENDS Integers, Sequences, FiniteSets, TLC

(***************************************************************************)
(* Bounds of the model.                                                    *)
(***************************************************************************)
\* number of .pdf files os.listdir may yield in one run
MaxDocs == 2

(***************************************************************************)
(* Python values and string operations.                                    *)
(***************************************************************************)
\* Python's None for seccion_actual / subseccion_actual.  Those variables
\* only ever hold None, one of the nine section names or one of the two
\* marker names, so a string outside those sets stands for None.
None == "<None>"

At(s, i) == SubSeq(s, i, i)

IsSpace(c) == c \in {" ", "\t", "\n", "\r", "\f"}

\* str.strip(): drop leading and trailing whitespace
Strip(s) ==
    LET ns == {i \in 1..Len(s) : ~IsSpace(At(s, i))}
    IN  IF ns = {} THEN ""
        ELSE LET lo == CHOOSE i \in ns : \A j \in ns : i <= j
                 hi == CHOOSE i \in ns : \A j \in ns : j <= i
             IN  SubSeq(s, lo, hi)

\* Python's `sub in s` for strings: substring containment
In(sub, s) ==
    \E i \in 1..(Len(s) - Len(sub) + 1) : SubSeq(s, i, i + Len(sub) - 1) = sub

\* index of the first occurrence of the one-character string c in s (0: none)
Find(s, c) ==
    LET hits == {i \in 1..Len(s) : At(s, i) = c}
    IN  IF hits = {} THEN 0 ELSE CHOOSE i \in hits : \A j \in hits : i <= j

\* s.split(c): every piece between occurrences of c ("" splits to <<"">>)
RECURSIVE Split(_, _)
Split(s, c) ==
    LET i == Find(s, c)
    IN  IF i = 0 THEN <<s>>
        ELSE <<SubSeq(s, 1, i - 1)>> \o Split(SubSeq(s, i + 1, Len(s)), c)

\* s.split(c, 1): at most one split, at the first occurrence of c
Split1(s, c) ==
    LET i == Find(s, c)
    IN  IF i = 0 THEN <<s>>
        ELSE <<SubSeq(s, 1, i - 1), SubSeq(s, i + 1, Len(s))>>

(***************************************************************************)
(* Python dict, insertion ordered: a sequence of [k |-> key, v |-> value]. *)
(***************************************************************************)
Keys(d) == {d[i].k : i \in 1..Len(d)}

Has(d, key) == key \in Keys(d)

Get(d, key) == d[CHOOSE i \in 1..Len(d) : d[i].k = key].v

\* d[key] = val: replaces the value in place, or appends a new key
Put(d, key, val) ==
    IF Has(d, key)
    THEN [i \in 1..Len(d) |-> IF d[i].k = key THEN [k |-> key, v |-> val] ELSE d[i]]
    ELSE Append(d, [k |-> key, v |-> val])


(***************************************************************************)
(* Program constants.                                                      *)
(***************************************************************************)
\* the nine section names, in the order of the list literal
SECCIONES == <<"DATOS_BASICOS", "IDENTIFICACION", "EQUIPO_QUIRURGICO",
               "DIAGNOSTICOS", "INTERVENCION", "PROCEDIMIENTOS",
               "DESCRIPCION_QUIRURGICA", "CONTEO_MATERIAL", "DATOS_PROFESIONAL">>

secciones_requeridas == SECCIONES

NombresSeccion == {SECCIONES[i] : i \in 1..Len(SECCIONES)}

DQ == "DESCRIPCION_QUIRURGICA"
Hallazgos == "Hallazgos_operatorios"
Detalle == "Detalle_quirúrgico"

\* len(...) < 50 in validar_datos
UmbralHallazgos == 50

(***************************************************************************)
(* The texts procesar_informe_quirurgico may receive from the model        *)
(* (response.text, before .strip()).                                       *)
(***************************************************************************)
\* a Hallazgos value of 43 characters: one more 5-character line makes 49,
\* one more 6-character line makes 50
Largo43 == "0123456789012345678901234567890123456789012"

Respuestas ==
    { "DATOS_BASICOS",
      "DESCRIPCION_QUIRURGICA",
      "Ingreso: 1",
      "Hallazgos_operatorios: a",
      "line2",
      "Obs: b",
      "Detalle_quirúrgico_extra: x",
      "Nota Hallazgos_operatorios: c",
      "Página 1: x",
      "DATOS_BASICOS extra",
      " \n ",
      "DATOS_BASICOS\nIngreso: 1\nImpreso el 3: x\nEgreso: 3\n",
      "  DATOS_BASICOS\n Ingreso : 10:30",
      "DESCRIPCION_QUIRURGICA\nHallazgos_operatorios: a\nline2\nline3\n",
      "DESCRIPCION_QUIRURGICA\nHallazgos_operatorios: " \o Largo43,
      "DESCRIPCION_QUIRURGICA\nObs: b",
      "DESCRIPCION_QUIRURGICA\nHallazgos_operatorios: a\nObs: b\nline2",
      "Obs: b\n  line2",
      "IDENTIFICACION\nsin datos\nDATOS_BASICOS\nIngreso: 2" }

(***************************************************************************)
(* State.                                                                  *)
(***************************************************************************)
VARIABLES
    pc,                 \* position in __main__ and the function it is running
    n_pdf,              \* .pdf files of the listing processed so far
    devueltos,          \* what procesar_informe_quirurgico returned for each:
                        \* <<>> for None, <<text>> for a text
    resultados,         \* __main__: list of extracted texts
    txt_file,           \* informes_quirurgicos.txt: <<>> absent, <<text>> written
    lineas,             \* convertir_a_json: contenido.split('\n')
    idx,                \* convertir_a_json: position of the for loop in lineas
    datos_json,         \* convertir_a_json: the Record
    seccion_actual,     \* convertir_a_json
    subseccion_actual,  \* convertir_a_json
    temp_dict,          \* convertir_a_json
    excepcion,          \* exception raised by the running function ("" none)
    json_file,          \* informes_quirurgicos.json: <<>> absent, <<dict>> written,
                        \* <<dict, "truncado">> cut short after that much
    datos_cargados,     \* __main__: datos_json = json.load(f)
    vidx,               \* validar_datos: position in secciones_requeridas
    avisos,             \* logging.warning calls of validar_datos, in order
    \* one call of procesar_informe_quirurgico
    retry_count,        \* upload_to_gemini: failures counted so far
    intentos,           \* upload_to_gemini: loop iterations started (history)
    tiempo,             \* time.time() - start_time, in seconds
    e,                  \* upload_to_gemini: the exception last caught, "" none
    lanzada,            \* the exception upload_to_gemini raised, "" none
    file,               \* files[0]: "" not returned yet, "file", or None
    state,              \* current_file.state.name last read, "" not read yet
    sondeos,            \* get_file calls that answered PROCESSING
    activos,            \* what wait_for_files_active returned, "" not yet
    enviado,            \* chat_session.send_message(prompt) has been called
    retorno             \* what the call returned, "" not yet

vars == <<pc, n_pdf, devueltos, resultados, txt_file, lineas, idx, datos_json,
          seccion_actual, subseccion_actual, temp_dict, excepcion, json_file,
          datos_cargados, vidx, avisos, retry_count, intentos, tiempo, e,
          lanzada, file, state, sondeos, activos, enviado, retorno>>

parser_vars == <<lineas, idx, datos_json, seccion_actual, subseccion_actual,
                 temp_dict>>

validar_vars == <<datos_cargados, vidx, avisos>>

procesar_vars == <<retry_count, intentos, tiempo, e, lanzada, file, state,
                   sondeos, activos, enviado, retorno>>

main_vars == <<n_pdf, devueltos, resultados, txt_file, parser_vars, excepcion,
               json_file, validar_vars>>

\* the state of a call of procesar_informe_quirurgico that has not started
procesar_init ==
    /\ retry_count = 0
    /\ intentos = 0
    /\ tiempo = 0
    /\ e = ""
    /\ lanzada = ""
    /\ file = ""
    /\ state = ""
    /\ sondeos = 0
    /\ activos = ""
    /\ enviado = FALSE
    /\ retorno = ""

Init ==
    /\ pc = "listdir"
    /\ n_pdf = 0
    /\ devueltos = <<>>
    /\ resultados = <<>>
    /\ txt_file = <<>>
    /\ lineas = <<>>
    /\ idx = 1
    /\ datos_json = <<>>
    /\ seccion_actual = None
    /\ subseccion_actual = None
    /\ temp_dict = <<>>
    /\ excepcion = ""
    /\ json_file = <<>>
    /\ datos_cargados = <<>>
    /\ vidx = 1
    /\ avisos = <<>>
    /\ procesar_init

(***************************************************************************)
(* __main__: the loop over the listed .pdf files.                          *)
(***************************************************************************)
\* variant: a failed document ends the loop
InformeFallido_interrumpe ==
    /\ pc = "listdir"
    /\ n_pdf < MaxDocs
    /\ n_pdf' = n_pdf + 1
    /\ devueltos' = Append(devueltos, <<>>)
    /\ pc' = "guardar_en_txt"
    /\ UNCHANGED <<resultados, txt_file, parser_vars, excepcion, json_file,
                   validar_vars>>
    /\ UNCHANGED procesar_vars

\* procesar_informe_quirurgico returned None: nothing is appended
InformeFallido ==
    /\ pc = "listdir"
    /\ n_pdf < MaxDocs
    /\ n_pdf' = n_pdf + 1
    /\ devueltos' = Append(devueltos, <<>>)
    /\ UNCHANGED <<pc, resultados, txt_file, parser_vars, excepcion, json_file,
                   validar_vars>>
    /\ UNCHANGED procesar_vars

\* procesar_informe_quirurgico returned response.text.strip(); `if datos`
\* keeps it unless it is the empty string
InformeExtraido ==
    /\ pc = "listdir"
    /\ n_pdf < MaxDocs
    /\ \E r \in Respuestas :
          LET datos == Strip(r)
          IN  /\ devueltos' = Append(devueltos, <<datos>>)
              /\ resultados' = IF datos /= "" THEN Append(resultados, datos)
                               ELSE resultados
    /\ n_pdf' = n_pdf + 1
    /\ UNCHANGED <<pc, txt_file, parser_vars, excepcion, json_file, validar_vars>>
    /\ UNCHANGED procesar_vars

\* os.listdir is exhausted
FinListado ==
    /\ pc = "listdir"
    /\ pc' = "guardar_en_txt"
    /\ UNCHANGED <<n_pdf, devueltos, resultados, txt_file, parser_vars, excepcion,
                   json_file, validar_vars>>
    /\ UNCHANGED procesar_vars

(***************************************************************************)
(* guardar_en_txt                                                          *)
(***************************************************************************)
\* what the loop `f.write(dato + '\n\n')` leaves in the file
RECURSIVE Escrito(_)
Escrito(datos) ==
    IF datos = <<>> THEN ""
    ELSE (Head(datos) \o "\n\n") \o Escrito(Tail(datos))

guardar_en_txt ==
    /\ pc = "guardar_en_txt"
    /\ txt_file' = <<Escrito(resultados)>>
    /\ pc' = "convertir_a_json"
    /\ UNCHANGED <<n_pdf, devueltos, resultados, parser_vars, excepcion, json_file,
                   validar_vars>>
    /\ UNCHANGED procesar_vars

\* guardar_en_txt when open or a write raises: the except clause logs it and
\* the function returns.  open(..., 'w') has emptied the file unless it is
\* open itself that raised; the writes made before the failure stay.
guardar_en_txt_falla ==
    /\ pc = "guardar_en_txt"
    /\ \/ UNCHANGED txt_file
       \/ \E k \in 0..(Len(resultados) - 1) :
             txt_file' = <<Escrito(SubSeq(resultados, 1, k))>>
    /\ excepcion' = "OSError"
    /\ pc' = "convertir_a_json"
    /\ UNCHANGED <<n_pdf, devueltos, resultados, parser_vars, json_file,
                   validar_vars>>
    /\ UNCHANGED procesar_vars

(***************************************************************************)
(* convertir_a_json: the parse pass.  The parser state is the record       *)
(* [datos_json, seccion_actual, subseccion_actual, temp_dict, excepcion].  *)
(***************************************************************************)
\* Python truth value of seccion_actual / subseccion_actual
Truthy(x) == x /= None /\ x /= ""

\* variant: the footer substring is not tested
Saltar_sin_impreso(linea) == linea = "" \/ In("Página", linea)

\* `not linea or "Página" in linea or "Impreso el" in linea`
Saltar(linea) == linea = "" \/ In("Página", linea) \/ In("Impreso el", linea)

\* variant: a section name is looked for inside the line
EsSeccion_subcadena(linea) == \E i \in 1..Len(SECCIONES) : In(SECCIONES[i], linea)

\* `linea in [ ...the nine names... ]`
EsSeccion(linea) == \E i \in 1..Len(SECCIONES) : SECCIONES[i] = linea

\* variant: the fields are merged into the entry the Record already has
Commit_fusiona(dj, sec, td) ==
    IF Truthy(sec) /\ td /= <<>>
    THEN IF Has(dj, sec)
         THEN LET RECURSIVE Mezcla(_, _)
                  Mezcla(base, i) ==
                      IF i > Len(td) THEN base
                      ELSE Mezcla(Put(base, td[i].k, td[i].v), i + 1)
              IN  Put(dj, sec, Mezcla(Get(dj, sec), 1))
         ELSE Put(dj, sec, td)
    ELSE dj

\* variant: the section is committed even when it has no field
Commit_sin_guarda(dj, sec, td) ==
    IF Truthy(sec) THEN Put(dj, sec, td) ELSE dj

\* `if seccion_actual and temp_dict: datos_json[seccion_actual] = temp_dict`
Commit(dj, sec, td) ==
    IF Truthy(sec) /\ td /= <<>> THEN Put(dj, sec, td) ELSE dj

\* variant: the open-field pointer survives the section header
Encabezado_conserva_subseccion(st, linea) ==
    [st EXCEPT !.datos_json = Commit(st.datos_json, st.seccion_actual, st.temp_dict),
               !.seccion_actual = linea,
               !.temp_dict = <<>>]

\* the body of the section-header branch
Encabezado(st, linea) ==
    [st EXCEPT !.datos_json = Commit(st.datos_json, st.seccion_actual, st.temp_dict),
               !.seccion_actual = linea,
               !.temp_dict = <<>>,
               !.subseccion_actual = None]

\* `temp_dict[subseccion_actual] += "\n" + linea`: KeyError on a missing key
Acumular(st, linea) ==
    IF Has(st.temp_dict, st.subseccion_actual)
    THEN [st EXCEPT !.temp_dict =
             Put(st.temp_dict, st.subseccion_actual,
                 (Get(st.temp_dict, st.subseccion_actual) \o "\n") \o linea)]
    ELSE [st EXCEPT !.excepcion = "KeyError"]

\* variant: a marker line met again continues the field it already opened
AbrirMultilinea_acumula(st, k, valor) ==
    IF Has(st.temp_dict, k)
    THEN [st EXCEPT !.subseccion_actual = k,
                    !.temp_dict = Put(st.temp_dict, k,
                                      (Get(st.temp_dict, k) \o "\n") \o valor)]
    ELSE [st EXCEPT !.subseccion_actual = k,
                    !.temp_dict = Put(st.temp_dict, k, valor)]

\* `temp_dict[k] = valor` with subseccion_actual = k
AbrirMultilinea(st, k, valor) ==
    [st EXCEPT !.subseccion_actual = k, !.temp_dict = Put(st.temp_dict, k, valor)]

\* variant: only the parsed value of the line is appended
ClaveSinMarcador_solo_valor(st, linea, clave, valor) ==
    IF Truthy(st.subseccion_actual)
    THEN Acumular(st, valor)
    ELSE [st EXCEPT !.temp_dict = Put(st.temp_dict, clave, valor)]

\* variant: a key/value line closes the open field and is stored as a field
ClaveSinMarcador_cierra(st, linea, clave, valor) ==
    [st EXCEPT !.subseccion_actual = None,
               !.temp_dict = Put(st.temp_dict, clave, valor)]

\* the branch `elif subseccion_actual:` of a key/value line in
\* DESCRIPCION_QUIRURGICA whose key holds no marker
ClaveSinMarcador(st, linea, clave, valor) ==
    IF Truthy(st.subseccion_actual)
    THEN Acumular(st, linea)
    ELSE [st EXCEPT !.temp_dict = Put(st.temp_dict, clave, valor)]

\* variant: the key must equal the marker
ClaveValor_exacto(st, linea) ==
    LET par == Split1(linea, ":")
        clave == Strip(par[1])
        valor == Strip(par[2])
    IN  IF st.seccion_actual = DQ
        THEN IF clave = Hallazgos THEN AbrirMultilinea(st, Hallazgos, valor)
             ELSE IF clave = Detalle THEN AbrirMultilinea(st, Detalle, valor)
             ELSE ClaveSinMarcador(st, linea, clave, valor)
        ELSE [st EXCEPT !.temp_dict = Put(st.temp_dict, clave, valor)]

\* variant: the value is not trimmed
ClaveValor_valor_sin_strip(st, linea) ==
    LET par == Split1(linea, ":")
        clave == Strip(par[1])
        valor == par[2]
    IN  IF st.seccion_actual = DQ
        THEN IF In(Hallazgos, clave) THEN AbrirMultilinea(st, Hallazgos, valor)
             ELSE IF In(Detalle, clave) THEN AbrirMultilinea(st, Detalle, valor)
             ELSE ClaveSinMarcador(st, linea, clave, valor)
        ELSE [st EXCEPT !.temp_dict = Put(st.temp_dict, clave, valor)]

\* the body of `if seccion_actual and ":" in linea:`
ClaveValor(st, linea) ==
    LET par == Split1(linea, ":")
        clave == Strip(par[1])
        valor == Strip(par[2])
    IN  IF st.seccion_actual = DQ
        THEN IF In(Hallazgos, clave) THEN AbrirMultilinea(st, Hallazgos, valor)
             ELSE IF In(Detalle, clave) THEN AbrirMultilinea(st, Detalle, valor)
             ELSE ClaveSinMarcador(st, linea, clave, valor)
        ELSE [st EXCEPT !.temp_dict = Put(st.temp_dict, clave, valor)]

\* variant: a key/value line is stored even when no section is active
ProcesarLinea_sin_seccion(st, cruda) ==
    LET linea == Strip(cruda)
    IN  IF Saltar(linea) THEN st
        ELSE IF EsSeccion(linea) THEN Encabezado(st, linea)
        ELSE IF In(":", linea) THEN ClaveValor(st, linea)
        ELSE IF Truthy(st.seccion_actual) /\ Truthy(st.subseccion_actual) /\ linea /= ""
             THEN Acumular(st, linea)
        ELSE st

\* one iteration of `for linea in lineas:` on the raw line `cruda`
ProcesarLinea(st, cruda) ==
    LET linea == Strip(cruda)
    IN  IF Saltar(linea) THEN st
        ELSE IF EsSeccion(linea) THEN Encabezado(st, linea)
        ELSE IF Truthy(st.seccion_actual) /\ In(":", linea) THEN ClaveValor(st, linea)
        ELSE IF Truthy(st.seccion_actual) /\ Truthy(st.subseccion_actual) /\ linea /= ""
             THEN Acumular(st, linea)
        ELSE st

Estado ==
    [datos_json |-> datos_json, seccion_actual |-> seccion_actual,
     subseccion_actual |-> subseccion_actual, temp_dict |-> temp_dict,
     excepcion |-> excepcion]

\* open + read + the initialisations + contenido.split('\n')
convertir_a_json ==
    /\ pc = "convertir_a_json"
    /\ IF txt_file = <<>>
       THEN /\ excepcion' = "FileNotFoundError"
            /\ pc' = "json_load"
            /\ UNCHANGED parser_vars
       ELSE /\ lineas' = Split(txt_file[1], "\n")
            /\ idx' = 1
            /\ datos_json' = <<>>
            /\ seccion_actual' = None
            /\ subseccion_actual' = None
            /\ temp_dict' = <<>>
            /\ excepcion' = ""
            /\ pc' = "for_linea"
    /\ UNCHANGED <<n_pdf, devueltos, resultados, txt_file, json_file, validar_vars>>
    /\ UNCHANGED procesar_vars

\* one iteration of the line loop; an exception leaves through the except
\* clause of convertir_a_json, which logs it and returns
for_linea ==
    /\ pc = "for_linea"
    /\ idx <= Len(lineas)
    /\ LET st == ProcesarLinea(Estado, lineas[idx])
       IN  /\ datos_json' = st.datos_json
           /\ seccion_actual' = st.seccion_actual
           /\ subseccion_actual' = st.subseccion_actual
           /\ temp_dict' = st.temp_dict
           /\ excepcion' = st.excepcion
           /\ pc' = IF st.excepcion /= "" THEN "json_load" ELSE "for_linea"
    /\ idx' = idx + 1
    /\ UNCHANGED <<n_pdf, devueltos, resultados, txt_file, lineas, json_file, validar_vars>>
    /\ UNCHANGED procesar_vars

\* after the loop: `if seccion_actual and temp_dict: datos_json[...] = temp_dict`
ultima_seccion ==
    /\ pc = "for_linea"
    /\ idx > Len(lineas)
    /\ datos_json' = Commit(datos_json, seccion_actual, temp_dict)
    /\ pc' = "json_dump"
    /\ UNCHANGED <<n_pdf, devueltos, resultados, txt_file, lineas, idx, seccion_actual,
                   subseccion_actual, temp_dict, excepcion, json_file,
                   validar_vars>>
    /\ UNCHANGED procesar_vars

\* json.dump(datos_json, f, indent=4, ensure_ascii=False)
json_dump ==
    /\ pc = "json_dump"
    /\ json_file' = <<datos_json>>
    /\ pc' = "json_load"
    /\ UNCHANGED <<n_pdf, devueltos, resultados, txt_file, parser_vars, excepcion,
                   validar_vars>>
    /\ UNCHANGED procesar_vars

\* the write of the JSON file when open or json.dump raises: the except
\* clause of convertir_a_json logs it.  The file is left as it was when open
\* raised, otherwise emptied and holding what was written before the failure.
json_dump_falla ==
    /\ pc = "json_dump"
    /\ \/ UNCHANGED json_file
       \/ \E k \in 0..(Len(datos_json) - 1) :
             json_file' = <<SubSeq(datos_json, 1, k), "truncado">>
    /\ excepcion' = "OSError"
    /\ pc' = "json_load"
    /\ UNCHANGED <<n_pdf, devueltos, resultados, txt_file, parser_vars,
                   validar_vars>>
    /\ UNCHANGED procesar_vars

(***************************************************************************)
(* __main__: json.load of the written file, then validar_datos.            *)
(***************************************************************************)
json_load ==
    /\ pc = "json_load"
    /\ IF json_file = <<>>
       THEN /\ pc' = "crash"
            /\ excepcion' = "FileNotFoundError"
            /\ UNCHANGED validar_vars
       ELSE IF Len(json_file) = 2
       THEN /\ pc' = "crash"
            /\ excepcion' = "JSONDecodeError"
            /\ UNCHANGED validar_vars
       ELSE /\ datos_cargados' = json_file[1]
            /\ vidx' = 1
            /\ avisos' = <<>>
            /\ excepcion' = ""
            /\ pc' = "validar_datos"
    /\ UNCHANGED <<n_pdf, devueltos, resultados, txt_file, parser_vars, json_file>>
    /\ UNCHANGED procesar_vars

(***************************************************************************)
(* validar_datos                                                           *)
(***************************************************************************)
AvisoSeccion(seccion) == <<"Sección faltante", seccion>>
AvisoFaltantes == <<"Hallazgos operatorios faltantes">>
AvisoIncompletos == <<"Hallazgos operatorios posiblemente incompletos">>

\* variant: the threshold itself counts as short
EsCorto_inclusive(valor) == Len(valor) <= UmbralHallazgos

\* `len(datos_json[seccion]["Hallazgos_operatorios"]) < 50`
EsCorto(valor) == Len(valor) < UmbralHallazgos

\* the body of `for seccion in secciones_requeridas:` for one seccion:
\* the warnings it logs and the exception it raises ("" none)
ValidarSeccion(dj, seccion) ==
    IF ~Has(dj, seccion)
    THEN [avisos |-> <<AvisoSeccion(seccion)>>, excepcion |-> ""]
    ELSE IF seccion = DQ
    THEN LET campos == Get(dj, seccion)
             falta == IF ~Has(campos, Hallazgos) THEN <<AvisoFaltantes>> ELSE <<>>
         IN  IF ~Has(campos, Hallazgos)
             THEN [avisos |-> falta, excepcion |-> "KeyError"]
             ELSE IF EsCorto(Get(campos, Hallazgos))
             THEN [avisos |-> falta \o <<AvisoIncompletos>>, excepcion |-> ""]
             ELSE [avisos |-> falta, excepcion |-> ""]
    ELSE [avisos |-> <<>>, excepcion |-> ""]

\* one iteration of the loop of validar_datos; __main__ does not catch what
\* it raises
validar_seccion ==
    /\ pc = "validar_datos"
    /\ vidx <= Len(secciones_requeridas)
    /\ LET r == ValidarSeccion(datos_cargados, secciones_requeridas[vidx])
       IN  /\ avisos' = avisos \o r.avisos
           /\ excepcion' = r.excepcion
           /\ pc' = IF r.excepcion /= "" THEN "crash" ELSE "validar_datos"
    /\ vidx' = vidx + 1
    /\ UNCHANGED <<n_pdf, devueltos, resultados, txt_file, parser_vars, json_file,
                   datos_cargados>>
    /\ UNCHANGED procesar_vars

\* validar_datos returns
validar_fin ==
    /\ pc = "validar_datos"
    /\ vidx > Len(secciones_requeridas)
    /\ pc' = "fin"
    /\ UNCHANGED <<n_pdf, devueltos, resultados, txt_file, parser_vars, excepcion,
                   json_file, validar_vars>>
    /\ UNCHANGED procesar_vars

Next ==
    \/ InformeFallido
    \/ InformeExtraido
    \/ FinListado
    \/ guardar_en_txt
    \/ convertir_a_json
    \/ for_linea
    \/ ultima_seccion
    \/ json_dump
    \/ json_load
    \/ validar_seccion
    \/ validar_fin

Spec == Init /\ [][Next]_vars

(***************************************************************************)
(* The run with the artifacts of an earlier run at the two fixed output    *)
(* paths, and with writes that may fail.                                   *)
(***************************************************************************)
\* informes_quirurgicos.txt as an earlier run left it
TxtPrevio == "DATOS_BASICOS\nIngreso: 0\n\n"

\* informes_quirurgicos.json as an earlier run left it
JsonPrevio == <<[k |-> "DATOS_BASICOS", v |-> <<[k |-> "Ingreso", v |-> "0"]>>]>>

InitIO ==
    /\ pc = "listdir"
    /\ n_pdf = 0
    /\ devueltos = <<>>
    /\ resultados = <<>>
    /\ txt_file \in {<<>>, <<TxtPrevio>>}
    /\ lineas = <<>>
    /\ idx = 1
    /\ datos_json = <<>>
    /\ seccion_actual = None
    /\ subseccion_actual = None
    /\ temp_dict = <<>>
    /\ excepcion = ""
    /\ json_file \in {<<>>, <<JsonPrevio>>}
    /\ datos_cargados = <<>>
    /\ vidx = 1
    /\ avisos = <<>>
    /\ procesar_init

NextIO ==
    \/ Next
    \/ guardar_en_txt_falla
    \/ json_dump_falla

SpecIO == InitIO /\ [][NextIO]_vars

(***************************************************************************)
(* One call of procesar_informe_quirurgico: upload_to_gemini, then         *)
(* wait_for_files_active, then the chat session and the prompt.            *)
(***************************************************************************)
max_retries == 3

timeout == 30

\* 20 * 1024 * 1024, the size limit in bytes
LimiteBytes == 20971520

\* the longest an upload attempt is let to last, in seconds
MaxDuracion == 31

\* the most get_file calls that answer PROCESSING
MaxSondeos == 2

\* the names current_file.state.name takes
Estados == {"PROCESSING", "ACTIVE", "FAILED"}

\* the values response.text takes
Textos == {"IDENTIFICACION\nNombre: x", " Ingreso: 1 \n", " \n "}

Min(a, b) == IF a < b THEN a ELSE b

\* the try body of one attempt: the exception it raises, "" when it returns
\* the file.  subida is what genai.upload_file does: returns a file object,
\* returns an object that is not one (None), or raises.
Intento(existe, file_size, subida) ==
    IF ~existe THEN "FileNotFoundError"
    ELSE IF file_size > LimiteBytes THEN "ValueError"
    ELSE IF subida = "raise" THEN "Exception"
    ELSE IF subida = "file" THEN "" ELSE "ValueError"

\* the except clause without the raise after max_retries failures
Except_sin_limite(err, elapsed_time) ==
    /\ retry_count' = retry_count + 1
    /\ e' = err
    /\ UNCHANGED file
    /\ IF elapsed_time > timeout
       THEN /\ lanzada' = "TimeoutError"
            /\ tiempo' = elapsed_time
            /\ pc' = "except"
       ELSE /\ UNCHANGED lanzada
            /\ tiempo' = elapsed_time + Min(2 ^ (retry_count + 1), 10)
            /\ pc' = "upload_to_gemini"

\* the except clause of the retry loop, entered with exception err at time
\* elapsed_time: count, raise TimeoutError or the error, or sleep and loop
Except(err, elapsed_time) ==
    /\ retry_count' = retry_count + 1
    /\ e' = err
    /\ UNCHANGED file
    /\ IF elapsed_time > timeout
       THEN /\ lanzada' = "TimeoutError"
            /\ tiempo' = elapsed_time
            /\ pc' = "except"
       ELSE IF retry_count + 1 >= max_retries
       THEN /\ lanzada' = err
            /\ tiempo' = elapsed_time
            /\ pc' = "except"
       ELSE /\ UNCHANGED lanzada
            /\ tiempo' = elapsed_time + Min(2 ^ (retry_count + 1), 10)
            /\ pc' = "upload_to_gemini"

\* one evaluation of the while condition and, when it holds, one iteration
\* of the loop; `return None` when it does not
upload_to_gemini ==
    /\ pc = "upload_to_gemini"
    /\ IF retry_count < max_retries
       THEN /\ intentos' = intentos + 1
            /\ \E existe \in BOOLEAN,
                  file_size \in {LimiteBytes, LimiteBytes + 1},
                  subida \in {"file", None, "raise"},
                  d \in 0..MaxDuracion :
                 IF Intento(existe, file_size, subida) = ""
                 THEN /\ file' = "file"
                      /\ tiempo' = tiempo + d
                      /\ pc' = "wait_for_files_active"
                      /\ UNCHANGED <<retry_count, e, lanzada>>
                 ELSE Except(Intento(existe, file_size, subida), tiempo + d)
       ELSE /\ file' = None
            /\ pc' = "wait_for_files_active"
            /\ UNCHANGED <<retry_count, intentos, tiempo, e, lanzada>>
    /\ UNCHANGED <<state, sondeos, activos, enviado, retorno, main_vars>>

\* a file is taken as ready whatever state it left PROCESSING for
Listo_cualquiera(nombre) == TRUE

\* the test on the state name the polling loop ended with
Listo(nombre) == nombre = "ACTIVE"

\* one genai.get_file call of wait_for_files_active and what follows it, up
\* to the `if not wait_for_files_active(files): return None` of the caller
wait_for_files_active ==
    /\ pc = "wait_for_files_active"
    /\ IF file = None
       THEN /\ activos' = "True"
            /\ pc' = "send_message"
            /\ UNCHANGED <<state, sondeos, retorno>>
       ELSE \/ /\ activos' = "False"
               /\ retorno' = None
               /\ pc' = "fin"
               /\ UNCHANGED <<state, sondeos>>
            \/ \E nombre \in Estados :
                 /\ state' = nombre
                 /\ IF nombre = "PROCESSING"
                    THEN /\ sondeos < MaxSondeos
                         /\ sondeos' = sondeos + 1
                         /\ UNCHANGED <<pc, activos, retorno>>
                    ELSE IF Listo(nombre)
                    THEN /\ activos' = "True"
                         /\ pc' = "send_message"
                         /\ UNCHANGED <<sondeos, retorno>>
                    ELSE /\ activos' = "False"
                         /\ retorno' = None
                         /\ pc' = "fin"
                         /\ UNCHANGED sondeos
    /\ UNCHANGED <<retry_count, intentos, tiempo, e, lanzada, file, enviado,
                   main_vars>>

\* start_chat, send_message(prompt) and response.text.strip(); an exception
\* of any of them is caught and None returned
send_message ==
    /\ pc = "send_message"
    /\ \/ /\ UNCHANGED enviado
          /\ retorno' = None
       \/ /\ enviado' = TRUE
          /\ retorno' = None
       \/ /\ enviado' = TRUE
          /\ \E text \in Textos : retorno' = Strip(text)
    /\ pc' = "fin"
    /\ UNCHANGED <<retry_count, intentos, tiempo, e, lanzada, file, state,
                   sondeos, activos, main_vars>>

\* the except clause of procesar_informe_quirurgico, reached by the
\* exception upload_to_gemini raised
except_procesar ==
    /\ pc = "except"
    /\ retorno' = None
    /\ pc' = "fin"
    /\ UNCHANGED <<retry_count, intentos, tiempo, e, lanzada, file, state,
                   sondeos, activos, enviado, main_vars>>

InitProcesar ==
    /\ pc = "upload_to_gemini"
    /\ n_pdf = 0
    /\ devueltos = <<>>
    /\ resultados = <<>>
    /\ txt_file = <<>>
    /\ lineas = <<>>
    /\ idx = 1
    /\ datos_json = <<>>
    /\ seccion_actual = None
    /\ subseccion_actual = None
    /\ temp_dict = <<>>
    /\ excepcion = ""
    /\ json_file = <<>>
    /\ datos_cargados = <<>>
    /\ vidx = 1
    /\ avisos = <<>>
    /\ procesar_init

NextProcesar ==
    \/ upload_to_gemini
    \/ wait_for_files_active
    \/ send_message
    \/ except_procesar

SpecProcesar == InitProcesar /\ [][NextProcesar]_vars

(***************************************************************************)
(* Vocabulary of the properties: the input lines as the claims describe    *)
(* them, read off lineas and resultados.                                   *)
(***************************************************************************)
\* line i of the intermediate text, trimmed
Linea(i) == Strip(lineas[i])

\* blank after trimming, or holding a page-header / footer substring
Omitida(l) == l = "" \/ In("Página", l) \/ In("Impreso el", l)

\* line i is a section-header line
EsEncabezado(i) == Linea(i) \in NombresSeccion

TieneDosPuntos(l) == In(":", l)

\* the key of a key/value-shaped line: the text before the first ':', trimmed
ClaveDe(l) == Strip(Split1(l, ":")[1])

ValorDe(l) == Strip(Split1(l, ":")[2])

\* the marker a key/value line's key contains (Hallazgos is tested first)
MarcadorDe(l) ==
    IF ~TieneDosPuntos(l) THEN None
    ELSE IF In(Hallazgos, ClaveDe(l)) THEN Hallazgos
    ELSE IF In(Detalle, ClaveDe(l)) THEN Detalle
    ELSE None

\* line i is a key/value line whose key contains no marker
ClaveValorOrdinaria(i) ==
    /\ ~Omitida(Linea(i))
    /\ ~EsEncabezado(i)
    /\ TieneDosPuntos(Linea(i))
    /\ MarcadorDe(Linea(i)) = None

\* index of the last section-header line before line i (0: none)
UltimoEncabezado(i) ==
    LET hs == {h \in 1..(i - 1) : EsEncabezado(h)}
    IN  IF hs = {} THEN 0 ELSE CHOOSE h \in hs : \A g \in hs : g <= h

\* last line of the section occurrence that starts at header line h
FinOcurrencia(h) ==
    LET hs == {g \in (h + 1)..Len(lineas) : EsEncabezado(g)}
    IN  IF hs = {} THEN Len(lineas)
        ELSE (CHOOSE g \in hs : \A f \in hs : g <= f) - 1

\* the occurrence that starts at header line h holds a field line
TieneCampo(h) ==
    \E j \in (h + 1)..FinOcurrencia(h) :
        ~Omitida(Linea(j)) /\ TieneDosPuntos(Linea(j))

\* number of lines a document contributes to the intermediate text
NumLineas(doc) == Len(Split(doc, "\n"))

\* index in lineas of the first line of document k of resultados
RECURSIVE InicioDoc(_)
InicioDoc(k) ==
    IF k = 1 THEN 1 ELSE InicioDoc(k - 1) + NumLineas(resultados[k - 1]) + 1

\* the document line i comes from (0: a separator line)
DocDe(i) ==
    LET ks == {k \in 1..Len(resultados) :
                  /\ InicioDoc(k) <= i
                  /\ i < InicioDoc(k) + NumLineas(resultados[k])}
    IN  IF ks = {} THEN 0 ELSE CHOOSE k \in ks : TRUE

\* a step of the line loop is being taken on line idx
PasoDeLinea == pc = "for_linea" /\ idx <= Len(lineas) /\ idx' = idx + 1

\* the parse pass is over (the final commit included)
ParseTerminado == pc = "json_dump"

\* validar_datos is over: it returned, or raised
ValidarTerminado == pc = "fin" \/ (pc = "crash" /\ excepcion = "KeyError")

EnAvisos(a) == \E i \in 1..Len(avisos) : avisos[i] = a

(***************************************************************************)
(* Properties.                                                             *)
(***************************************************************************)
\* C1: the parse pass (line loop and final commit) never raises, and for a
\* text with no section-header line (the empty text included) the Record it
\* ends with is the empty mapping.
C1_ParseTotal ==
    /\ pc \in {"for_linea", "json_dump", "json_load"} => excepcion /= "KeyError"
    /\ (ParseTerminado /\ \A i \in 1..Len(lineas) : ~EsEncabezado(i))
          => datos_json = <<>>

\* C1 witness: the parse of a text that has a key/value line and free text
\* but no section header has ended with the empty Record.
C1_Witness ==
    /\ ParseTerminado
    /\ \A i \in 1..Len(lineas) : ~EsEncabezado(i)
    /\ \E i \in 1..Len(lineas) : ClaveValorOrdinaria(i)
    /\ \E i \in 1..Len(lineas) : ~Omitida(Linea(i)) /\ ~TieneDosPuntos(Linea(i))
    /\ datos_json = <<>>
    /\ excepcion = ""

\* C2 (as claimed): validar_datos never raises, whatever Record the parser
\* produced.
C2_ValidarNuncaLanza == ~(pc = "crash" /\ excepcion = "KeyError")

\* C3: while a multiline field is open in DESCRIPCION_QUIRURGICA, a line that
\* is not skipped, is not a section header and whose key holds no marker is
\* appended whole (as trimmed by the loop) to the open field after a newline,
\* with or without ':', and adds no field key; the open field stays open.
C3_LineaEnteraAcumulada ==
    [][(/\ PasoDeLinea
        /\ seccion_actual = DQ
        /\ subseccion_actual \in {Hallazgos, Detalle}
        /\ ~Omitida(Linea(idx))
        /\ ~EsEncabezado(idx)
        /\ MarcadorDe(Linea(idx)) = None)
       => (/\ Has(temp_dict, subseccion_actual)
           /\ temp_dict' = Put(temp_dict, subseccion_actual,
                               (Get(temp_dict, subseccion_actual) \o "\n")
                                   \o Linea(idx))
           /\ Keys(temp_dict') = Keys(temp_dict)
           /\ subseccion_actual' = subseccion_actual
           /\ seccion_actual' = seccion_actual
           /\ excepcion' = "")]_vars

\* C3 witness: in one document, the field was opened with "a" and the line
\* 'Obs: b' that follows was appended whole; the section has no key Obs.
C3_Witness ==
    /\ pc = "for_linea"
    /\ Len(resultados) = 1
    /\ seccion_actual = DQ
    /\ subseccion_actual = Hallazgos
    /\ Linea(idx - 1) = "Obs: b"
    /\ temp_dict = <<[k |-> Hallazgos, v |-> "a\nObs: b"]>>

\* C4 (as claimed): once an ordinary key/value line has been seen after the
\* field was opened, a later line without ':' of the same section is no
\* longer appended to the field (the buffer is left as it was).
C4_CierraConClaveValor ==
    [][(/\ PasoDeLinea
        /\ Truthy(subseccion_actual)
        /\ ~Omitida(Linea(idx))
        /\ ~EsEncabezado(idx)
        /\ ~TieneDosPuntos(Linea(idx))
        /\ \E j \in (UltimoEncabezado(idx) + 1)..(idx - 1) :
              /\ ClaveValorOrdinaria(j)
              /\ \E o \in (UltimoEncabezado(idx) + 1)..(j - 1) :
                    ~Omitida(Linea(o)) /\ MarcadorDe(Linea(o)) /= None
              /\ \A m \in (j + 1)..(idx - 1) :
                    Omitida(Linea(m)) \/ MarcadorDe(Linea(m)) = None)
       => temp_dict' = temp_dict]_vars

\* C4 (amended): an open multiline field stops being the open field exactly
\* at a section header or at a key/value line whose key holds the other
\* marker; a key/value line with the same marker restarts it; an ordinary
\* key/value line does not close it, and a line without ':' that comes after
\* such a key/value line is still appended to the field.
C4_AbiertoHastaEncabezadoOMarcador ==
    [][(PasoDeLinea /\ Truthy(subseccion_actual))
       => LET l == Linea(idx)
              m == MarcadorDe(l)
          IN  /\ (~Omitida(l) /\ EsEncabezado(idx)) => subseccion_actual' = None
              /\ (~Omitida(l) /\ ~EsEncabezado(idx) /\ m /= None)
                    => (/\ subseccion_actual' = m
                        /\ Get(temp_dict', m) = ValorDe(l))
              /\ (Omitida(l) \/ (~EsEncabezado(idx) /\ m = None))
                    => subseccion_actual' = subseccion_actual
              /\ (/\ ~Omitida(l)
                  /\ ~EsEncabezado(idx)
                  /\ ~TieneDosPuntos(l)
                  /\ \E j \in (UltimoEncabezado(idx) + 1)..(idx - 1) :
                        ClaveValorOrdinaria(j))
                    => Get(temp_dict', subseccion_actual)
                          = (Get(temp_dict, subseccion_actual) \o "\n") \o l]_vars

\* C4 witness: in one document, field opened, then 'Obs: b', then 'line2':
\* the line after the key/value line was appended too and the field is open.
C4_Witness ==
    /\ pc = "for_linea"
    /\ Len(resultados) = 1
    /\ subseccion_actual = Hallazgos
    /\ Linea(idx - 1) = "line2"
    /\ ClaveValorOrdinaria(idx - 2)
    /\ temp_dict = <<[k |-> Hallazgos, v |-> "a\nObs: b\nline2"]>>

\* the parser state before the first line
EstadoInicial ==
    [datos_json |-> <<>>, seccion_actual |-> None, subseccion_actual |-> None,
     temp_dict |-> <<>>, excepcion |-> ""]

\* the parser state after lines i..j, taken alone
RECURSIVE Pasada(_, _, _)
Pasada(st, i, j) ==
    IF i > j THEN st ELSE Pasada(ProcesarLinea(st, lineas[i]), i + 1, j)

\* the field mapping of the section occurrence that starts at header line h,
\* parsed on its own
CamposDe(h) == Pasada(EstadoInicial, h, FinOcurrencia(h)).temp_dict

\* the header lines of section s whose occurrence received a field
OcurrenciasConCampos(s) ==
    {h \in 1..Len(lineas) : Linea(h) = s /\ CamposDe(h) /= <<>>}

\* C5: after the parse of the concatenated documents, the entry of a section
\* name is exactly the field mapping of the last occurrence of that header
\* that received a field (nothing of an earlier occurrence survives, an
\* occurrence without fields changes nothing), and a name with no such
\* occurrence has no entry.
C5_UltimaOcurrenciaGana ==
    ParseTerminado =>
        \A s \in NombresSeccion :
            LET occ == OcurrenciasConCampos(s)
            IN  IF occ = {} THEN ~Has(datos_json, s)
                ELSE /\ Has(datos_json, s)
                     /\ Get(datos_json, s)
                           = CamposDe(CHOOSE h \in occ : \A g \in occ : g <= h)

\* C5 witness: two documents with DATOS_BASICOS; the first has Ingreso and
\* Egreso, the second only Ingreso: the entry is the second's, without Egreso.
C5_Witness ==
    /\ ParseTerminado
    /\ Len(resultados) = 2
    /\ In("Egreso: 3", resultados[1])
    /\ In("Ingreso : 10:30", resultados[2])
    /\ Get(datos_json, "DATOS_BASICOS") = <<[k |-> "Ingreso", v |-> "10:30"]>>

\* C6 (as claimed): a line of one document is never stored in, or appended
\* to, a field of a section whose header came from another document.
C6_SinArrastreEntreDocumentos ==
    [][(/\ PasoDeLinea
        /\ DocDe(idx) /= 0
        /\ UltimoEncabezado(idx) /= 0
        /\ ~EsEncabezado(idx)
        /\ DocDe(UltimoEncabezado(idx)) /= DocDe(idx))
       => temp_dict' = temp_dict]_vars

\* C7: empty sections are dropped: no section mapping stored in the Record
\* is ever empty, and after the parse a section name has an entry only if
\* one of its header occurrences is followed, before the next header or the
\* end of input, by a field line.
C7_SeccionesVaciasDescartadas ==
    /\ \A i \in 1..Len(datos_json) : datos_json[i].v /= <<>>
    /\ ParseTerminado =>
          \A s \in NombresSeccion :
              Has(datos_json, s)
                  => \E h \in 1..Len(lineas) : Linea(h) = s /\ TieneCampo(h)

\* C7 witness: IDENTIFICACION is followed by free text and the next header,
\* the final section DESCRIPCION_QUIRURGICA by the end of input; the Record
\* has an entry for neither, and has one for DATOS_BASICOS.
C7_Witness ==
    /\ ParseTerminado
    /\ \E h \in 1..Len(lineas) : Linea(h) = "IDENTIFICACION" /\ ~TieneCampo(h)
    /\ Linea(UltimoEncabezado(Len(lineas))) = DQ
    /\ ~TieneCampo(UltimoEncabezado(Len(lineas)))
    /\ Keys(datos_json) = {"DATOS_BASICOS"}

\* C8: every key of the Record is one of the nine section names, in every
\* state of the parse pass and in what __main__ loads back.
C8_ClavesSonSecciones ==
    /\ Keys(datos_json) \subseteq NombresSeccion
    /\ Keys(datos_cargados) \subseteq NombresSeccion

\* C8 witness: the text has a line that holds a section name without being
\* one, and a real section with a field: the Record holds the real section
\* only.
C8_Witness ==
    /\ ParseTerminado
    /\ \E i \in 1..Len(lineas) :
          /\ ~EsEncabezado(i)
          /\ \E s \in NombresSeccion : In(s, Linea(i))
    /\ Keys(datos_json) = {"DATOS_BASICOS"}

\* C9 (as claimed): when validar_datos is over, the missing-section warning
\* of each of the nine names was emitted if and only if the name is absent
\* from the Record.
C9_AvisoSiiAusente ==
    ValidarTerminado =>
        \A s \in NombresSeccion :
            EnAvisos(AvisoSeccion(s)) <=> ~Has(datos_cargados, s)

\* C10: when validar_datos is over, the 'possibly incomplete' warning was
\* emitted if and only if DESCRIPCION_QUIRURGICA has Hallazgos_operatorios
\* and its value is shorter than 50 characters.
C10_CortoSiiMenorQue50 ==
    ValidarTerminado =>
        (EnAvisos(AvisoIncompletos)
            <=> /\ Has(datos_cargados, DQ)
                /\ Has(Get(datos_cargados, DQ), Hallazgos)
                /\ Len(Get(Get(datos_cargados, DQ), Hallazgos)) < 50)

\* C10 witness: validar_datos returned after warning about a value of 49
\* characters.
C10_Witness ==
    /\ pc = "fin"
    /\ Has(datos_cargados, DQ)
    /\ Has(Get(datos_cargados, DQ), Hallazgos)
    /\ Len(Get(Get(datos_cargados, DQ), Hallazgos)) = 49
    /\ EnAvisos(AvisoIncompletos)

\* what a line of the loop may change besides its own position
estado_parser == <<seccion_actual, subseccion_actual, temp_dict, datos_json>>

\* C11: a line that is blank after trimming, or holds 'Página' or
\* 'Impreso el', leaves the active section, the open field, the buffer and
\* the Record as they were, whatever else the line looks like.
C11_LineaOmitidaNoCambiaNada ==
    [][(PasoDeLinea /\ Omitida(Linea(idx)))
       => (UNCHANGED estado_parser /\ excepcion' = "")]_vars

\* C11 witness: a skipped line shaped like 'key: value' was met while a
\* multiline field was open, and the field does not hold it.
C11_Witness ==
    /\ pc = "for_linea"
    /\ idx > 1
    /\ Linea(idx - 1) = "Página 1: x"
    /\ seccion_actual = DQ
    /\ subseccion_actual = Hallazgos
    /\ temp_dict = <<[k |-> Hallazgos, v |-> "a\nline2\nline3"]>>

\* C12: a line that is neither skipped nor a section header is ignored when
\* it has no ':' and no multiline field is open or no section is active, and
\* when it has ':' and no section is active.
C12_LineaIgnorada ==
    [][(/\ PasoDeLinea
        /\ ~Omitida(Linea(idx))
        /\ ~EsEncabezado(idx)
        /\ \/ /\ ~TieneDosPuntos(Linea(idx))
              /\ (subseccion_actual = None \/ seccion_actual = None)
           \/ /\ TieneDosPuntos(Linea(idx))
              /\ seccion_actual = None)
       => (UNCHANGED estado_parser /\ excepcion' = "")]_vars

\* C12 witness: a key/value line came before any header, and free text came
\* in a section with no open field; nothing was stored.
C12_Witness ==
    /\ pc = "for_linea"
    /\ idx > 2
    /\ \E i \in 1..(idx - 2) : UltimoEncabezado(i) = 0 /\ ClaveValorOrdinaria(i)
    /\ Linea(idx - 1) = "sin datos"
    /\ seccion_actual = "IDENTIFICACION"
    /\ subseccion_actual = None
    /\ temp_dict = <<>>
    /\ datos_json = <<>>

\* C13: a key/value line whose key contains a marker opens, in
\* DESCRIPCION_QUIRURGICA, the field named by the marker (not by the literal
\* key) and makes it the open field; in any other section it is stored under
\* its literal key and opens no field.
C13_MarcadorPorContenidoSoloEnDQ ==
    [][(/\ PasoDeLinea
        /\ ~Omitida(Linea(idx))
        /\ ~EsEncabezado(idx)
        /\ seccion_actual /= None
        /\ MarcadorDe(Linea(idx)) /= None)
       => LET l == Linea(idx)
          IN  IF seccion_actual = DQ
              THEN /\ temp_dict' = Put(temp_dict, MarcadorDe(l), ValorDe(l))
                   /\ subseccion_actual' = MarcadorDe(l)
              ELSE /\ temp_dict' = Put(temp_dict, ClaveDe(l), ValorDe(l))
                   /\ subseccion_actual' = None]_vars

\* C13 witness: 'Detalle_quirúrgico_extra: x' in DESCRIPCION_QUIRURGICA
\* opened the field Detalle_quirúrgico.
C13_Witness ==
    /\ pc = "for_linea"
    /\ idx > 1
    /\ Linea(idx - 1) = "Detalle_quirúrgico_extra: x"
    /\ seccion_actual = DQ
    /\ subseccion_actual = Detalle
    /\ temp_dict = <<[k |-> Detalle, v |-> "x"]>>

\* the line loop over the lines ls from parser state st
RECURSIVE PasadaDe(_, _)
PasadaDe(st, ls) ==
    IF ls = <<>> THEN st ELSE PasadaDe(ProcesarLinea(st, Head(ls)), Tail(ls))

\* the parse pass of convertir_a_json on a text: split, line loop, final
\* commit; the Record it ends with
ParseTexto(t) ==
    LET st == PasadaDe(EstadoInicial, Split(t, "\n"))
    IN  Commit(st.datos_json, st.seccion_actual, st.temp_dict)

\* one 'field: value' line per field, in insertion order, the value with its
\* literal newlines
RECURSIVE CamposComoTexto(_)
CamposComoTexto(campos) ==
    IF campos = <<>> THEN ""
    ELSE (((Head(campos).k \o ": ") \o Head(campos).v) \o "\n")
             \o CamposComoTexto(Tail(campos))

\* a Record written back as labeled text: for each section in order, its
\* name on a line of its own and then its field lines
RECURSIVE Serializar(_)
Serializar(record) ==
    IF record = <<>> THEN ""
    ELSE ((Head(record).k \o "\n") \o CamposComoTexto(Head(record).v))
             \o Serializar(Tail(record))

\* C16: the Record the parse pass ends with, written back as labeled text
\* and parsed again, gives the same sections with the same fields and the
\* same values, in the same order.
C16_IdaYVuelta ==
    ParseTerminado => ParseTexto(Serializar(datos_json)) = datos_json

\* C16 witness: a Record with two sections, one of them with a multiline
\* value that holds a 'key: value'-shaped line, went through the round trip.
C16_Witness ==
    /\ ParseTerminado
    /\ Keys(datos_json) = {"DATOS_BASICOS", DQ}
    /\ Has(Get(datos_json, DQ), Hallazgos)
    /\ Get(Get(datos_json, DQ), Hallazgos) = "a\nObs: b\nline2"
    /\ ParseTexto(Serializar(datos_json)) = datos_json

\* C17: whenever subseccion_actual is set, the active section is
\* DESCRIPCION_QUIRURGICA and the field it names is a key of temp_dict; a
\* section header clears the pointer together with the buffer.
C17_PunteroApuntaACampo ==
    /\ subseccion_actual /= None
          => (/\ seccion_actual = DQ
              /\ subseccion_actual \in {Hallazgos, Detalle}
              /\ Has(temp_dict, subseccion_actual))
    /\ temp_dict = <<>> => subseccion_actual = None

\* C17 witness: both multiline fields exist after text was appended to the
\* first, and the pointer names the second, which is a key of the buffer.
C17_Witness ==
    /\ pc = "for_linea"
    /\ seccion_actual = DQ
    /\ subseccion_actual = Detalle
    /\ temp_dict = <<[k |-> Hallazgos, v |-> "a\nline2\nline3"],
                     [k |-> Detalle, v |-> "x"]>>

\* C18: in DESCRIPCION_QUIRURGICA, a key/value line whose key contains a
\* marker whose field already exists replaces the value of that field by the
\* value of the line (the text accumulated so far is dropped), changes no
\* other field and makes the field the open one.
C18_MarcadorRepetidoReemplaza ==
    [][(/\ PasoDeLinea
        /\ ~Omitida(Linea(idx))
        /\ ~EsEncabezado(idx)
        /\ seccion_actual = DQ
        /\ MarcadorDe(Linea(idx)) /= None
        /\ Has(temp_dict, MarcadorDe(Linea(idx))))
       => LET m == MarcadorDe(Linea(idx))
          IN  /\ Get(temp_dict', m) = ValorDe(Linea(idx))
              /\ Keys(temp_dict') = Keys(temp_dict)
              /\ \A k \in Keys(temp_dict) \ {m} :
                    Get(temp_dict', k) = Get(temp_dict, k)
              /\ subseccion_actual' = m]_vars

\* C18 witness: the field held "a\nline2\nline3" and the line
\* 'Nota Hallazgos_operatorios: c' left it holding "c" only, open again.
C18_Witness ==
    /\ pc = "for_linea"
    /\ idx > 4
    /\ Linea(idx - 1) = "Nota Hallazgos_operatorios: c"
    /\ Linea(idx - 3) = "line3"
    /\ seccion_actual = DQ
    /\ subseccion_actual = Hallazgos
    /\ temp_dict = <<[k |-> Hallazgos, v |-> "c"]>>

\* the texts among the returned values rs, in order: every text, or only the
\* non-empty ones
RECURSIVE TextosDe(_, _)
TextosDe(rs, vacios) ==
    IF rs = <<>> THEN <<>>
    ELSE IF Head(rs) = <<>> \/ (~vacios /\ Head(rs)[1] = "")
         THEN TextosDe(Tail(rs), vacios)
         ELSE <<Head(rs)[1]>> \o TextosDe(Tail(rs), vacios)

\* the texts ts in order, each followed by a blank-line separator
RECURSIVE ConSeparadores(_)
ConSeparadores(ts) ==
    IF ts = <<>> THEN "" ELSE (Head(ts) \o "\n\n") \o ConSeparadores(Tail(ts))

\* a step in which a document's extraction failed
PasoFallido == devueltos' = Append(devueltos, <<>>)

\* C14 (as claimed): a failed document adds nothing and leaves the loop
\* running, the collected results are the texts of all the documents whose
\* extraction returned a text, in order, and guardar_en_txt writes them in
\* that order, each followed by a blank-line separator.
C14_ResultadosSonLosDevueltos ==
    [][/\ PasoFallido => (resultados' = resultados /\ pc' = "listdir")
       /\ resultados' = TextosDe(devueltos', TRUE)
       /\ pc' = "convertir_a_json"
             => txt_file' = <<ConSeparadores(TextosDe(devueltos', TRUE))>>]_vars

\* C14 (amended): as claimed, for the documents whose extraction returned a
\* non-empty text; a document whose extraction returned the empty text adds
\* nothing either.
C14_ResultadosSonLosDevueltosNoVacios ==
    [][/\ PasoFallido => (resultados' = resultados /\ pc' = "listdir")
       /\ resultados' = TextosDe(devueltos', FALSE)
       /\ pc' = "convertir_a_json"
             => txt_file' = <<ConSeparadores(TextosDe(devueltos', FALSE))>>]_vars

\* C14 witness: the first document failed, the second was extracted, and the
\* intermediate text holds the second alone.
C14_Witness ==
    /\ pc = "convertir_a_json"
    /\ devueltos = << <<>>, <<"Ingreso: 1">> >>
    /\ resultados = <<"Ingreso: 1">>
    /\ txt_file = <<"Ingreso: 1\n\n">>

\* C15 (as claimed): whether the write succeeds or fails, guardar_en_txt
\* leaves the text file either as it was or holding the complete new text,
\* and the JSON-writing step leaves the JSON file either as it was or holding
\* the complete new Record.
C15_EscrituraTodoONada ==
    [][/\ (pc = "guardar_en_txt" /\ pc' /= pc)
             => (txt_file' = txt_file
                    \/ txt_file' = <<ConSeparadores(resultados)>>)
       /\ (pc = "json_dump" /\ pc' /= pc)
             => (json_file' = json_file \/ json_file' = <<datos_json>>)]_vars

\* the call is past upload_to_gemini
SubidaTerminada ==
    pc \in {"wait_for_files_active", "send_message", "except", "fin"}

\* C19: upload_to_gemini makes at most 3 attempts; every failure, a missing
\* or oversized file included, counts as one; it ends by returning the file
\* object or by raising: TimeoutError when the elapsed time exceeds the
\* timeout at a failure, otherwise the last error after the third failure;
\* it never returns None.
C19_SubidaAcotada ==
    /\ intentos <= max_retries
    /\ retry_count = intentos - (IF file = "file" THEN 1 ELSE 0)
    /\ file /= None
    /\ pc = "upload_to_gemini" => retry_count < max_retries
    /\ SubidaTerminada =>
          \/ file = "file" /\ lanzada = ""
          \/ file = "" /\ lanzada = "TimeoutError" /\ tiempo > timeout
          \/ /\ file = ""
             /\ lanzada = e
             /\ e \in {"FileNotFoundError", "ValueError", "Exception"}
             /\ retry_count = max_retries
             /\ tiempo <= timeout

\* the third attempt fails on a missing file within the time limit, and that
\* error is raised
C19_Witness ==
    /\ pc = "except"
    /\ intentos = 3
    /\ retry_count = 3
    /\ lanzada = "FileNotFoundError"
    /\ tiempo = 2 + 4

\* C20: the prompt is sent only after the upload returned a file and that
\* file was last seen ACTIVE; when the upload raises, a status check raises
\* or the file ends in another state, the call returns None and the prompt
\* is not sent; wait_for_files_active returns True only if the file was
\* seen ACTIVE.
C20_PromptSoloConArchivoActivo ==
    /\ enviado => (file = "file" /\ state = "ACTIVE" /\ activos = "True")
    /\ activos = "True" => (file /= None => state = "ACTIVE")
    /\ (pc = "fin" /\ (lanzada /= "" \/ activos = "False" \/ state /= "ACTIVE"))
          => (retorno = None /\ ~enviado)

\* after one failed attempt the file is uploaded, seen PROCESSING once, then
\* ACTIVE, and the prompt is sent and answered
C20_Witness ==
    /\ pc = "fin"
    /\ retry_count = 1
    /\ file = "file"
    /\ sondeos = 1
    /\ state = "ACTIVE"
    /\ enviado
    /\ retorno = "Ingreso: 1"

=============================================================================
